---- MODULE Spec2Model ----
(***************************************************************************)
(* FSD -> UDD generator: the FSD sectionizer and slice resolver            *)
(* (app/section_extractor.py, app/section_mapper.py), the content          *)
(* generation pipeline (app/llm_orchestrator.py) and the job layer         *)
(* (app/main.py).                                                          *)
(*                                                                         *)
(* Text is a sequence of tokens.  A token is one character, except that    *)
(* the seven letters of the word SECTION are one token: "SECTION" is the   *)
(* word in upper case, "section" the word in any other letter case.        *)
(* "NL" is a line feed, "CR" a carriage return, " " a blank; ":" stands    *)
(* for either separator of the class [:\-]; "1" and "2" are digits, "."    *)
(* the dot, "a" any other character.                                       *)
(***************************************************************************)
EXTENDS Integers, Sequences, FiniteSets, TLC

VARIABLES
    \* the sectionizer and the slice resolver
    doc,           \* the text supplied by the caller
    fsd_text,      \* the fsd_text argument of the call made
    mapper,        \* SectionMapper.map: UDD section name -> list of keys
    udd_section,   \* the UDD section name of the call
    sections,      \* the Dict returned by parse_fsd_sections
    fs_slice,      \* the string returned by extract_relevant_fsd_slice
    pc,            \* which call has returned
    \* one /generate job: _run_job, _generate_docx_bytes, generate_udd_sections
    rag_found,        \* os.path.exists(rag_path)
    map_found,        \* os.path.exists(mapping_path)
    rag_file,         \* the text of the template resource
    rag_sections,     \* the list load_rag_sections returned
    ppc,              \* the statement the job has reached
    idx,              \* the loop index of generate_udd_sections
    results,          \* its results list
    context_snippets, \* its context_snippets list
    llm_calls,        \* the calls of llm.invoke made so far, in order
    llm_failed,       \* the numbers of the calls that raised
    pairs,            \* the list generate_udd_sections returned
    docx_bytes,       \* the bytes _generate_docx_bytes returned
    JOBS,             \* _JOBS: job id -> record
    files,            \* the files written: path -> content
    \* the server: concurrent requests and a status query
    lock,             \* _JOBS_LOCK: the thread holding it, or None
    today,            \* datetime.date.today()
    req,              \* request -> its handler's or runner's locals
    query             \* the locals of get_job

xvars == <<doc, fsd_text, mapper, udd_section, sections, fs_slice, pc>>

gvars == <<rag_found, map_found, rag_file, rag_sections, ppc, idx, results,
           context_snippets, llm_calls, llm_failed, pairs, docx_bytes>>

jvars == <<JOBS, files>>

svars == <<lock, today, req, query>>

vars == <<xvars, gvars, jvars, svars>>

\* Python's None: not yet assigned, not yet returned.
None == "None"

-----------------------------------------------------------------------------
(* Character classes of the two regular expressions.                        *)

\* \s
IsSpace(c) == c \in {" ", "NL", "CR"}

\* \d
IsDigit(c) == c \in {"1", "2"}

\* the literal SECTION; ic is re.IGNORECASE
IsWord(c, ic) == c = "SECTION" \/ (ic /\ c = "section")

\* [:\-]
IsSep(c) == c = ":"

\* \s* from position i (greedy): the first position >= i holding no space.
RECURSIVE SkipSpace(_, _)
SkipSpace(t, i) ==
    IF i <= Len(t) /\ IsSpace(t[i]) THEN SkipSpace(t, i + 1) ELSE i

\* \d+ from position i, which holds a digit: the position after the digits.
RECURSIVE SkipDigits(_, _)
SkipDigits(t, i) ==
    IF i <= Len(t) /\ IsDigit(t[i]) THEN SkipDigits(t, i + 1) ELSE i

\* The position of the identifier when SECTION\s*[:\-]\s*\d+ matches at i,
\* and 0 when it does not.
IdStart(t, i, ic) ==
    IF i <= Len(t) /\ IsWord(t[i], ic)
    THEN LET j == SkipSpace(t, i + 1) IN
         IF j <= Len(t) /\ IsSep(t[j])
         THEN LET k == SkipSpace(t, j + 1) IN
              IF k <= Len(t) /\ IsDigit(t[k]) THEN k ELSE 0
         ELSE 0
    ELSE 0

\* (\d+(?:\.\d+)*) from position k, which holds a digit: the position after
\* the identifier.
\* An identifier pattern of \d+ alone.
IdEnd_DigitsOnly(t, k) == SkipDigits(t, k)

RECURSIVE IdEnd(_, _)
IdEnd(t, k) ==
    LET e == SkipDigits(t, k) IN
    IF e + 1 <= Len(t) /\ t[e] = "." /\ IsDigit(t[e + 1])
    THEN IdEnd(t, e + 1)
    ELSE e

-----------------------------------------------------------------------------
(* parse_fsd_sections                                                       *)

\* fsd_text.replace("\r", "")
RemoveCR(t) == SelectSeq(t, LAMBDA c : c # "CR")

\* re.sub(r"\s*(?=SECTION\s*[:\-]\s*\d+(?:\.\d+)*)", "\n", text), without
\* re.IGNORECASE.  The scan of re.sub: a match at pos is the run of spaces
\* from pos when a marker follows it; after an empty match the next match
\* may not be empty at the same position (must_advance), after a non-empty
\* one it may, so a marker that follows spaces gets two line feeds.
RECURSIVE ForceNewlineFrom(_, _, _)
ForceNewlineFrom(t, pos, mustAdvance) ==
    LET q == SkipSpace(t, pos) IN
    IF IdStart(t, q, FALSE) # 0 /\ ~(mustAdvance /\ q = pos)
    THEN <<"NL">> \o ForceNewlineFrom(t, q, q = pos)
    ELSE IF pos > Len(t) THEN <<>>
         ELSE <<t[pos]>> \o ForceNewlineFrom(t, pos + 1, FALSE)

ForceNewline(t) == ForceNewlineFrom(t, 1, FALSE)

\* re.sub(r"\n{2,}", "\n", text)
RECURSIVE CollapseNewlines(_)
CollapseNewlines(t) ==
    IF t = <<>> THEN <<>>
    ELSE IF Len(t) >= 2 /\ t[1] = "NL" /\ t[2] = "NL"
         THEN CollapseNewlines(Tail(t))
         ELSE <<t[1]>> \o CollapseNewlines(Tail(t))

\* ^ under re.MULTILINE
AtLineStart(t, i) == i = 1 \/ t[i - 1] = "NL"

\* list(SECTION_HEADER_REGEX.finditer(text)) from position pos: the matches
\* in document order, each with start(), the span of group(1) and end().
RECURSIVE FindHeaders(_, _)
FindHeaders(t, pos) ==
    IF pos > Len(t) THEN <<>>
    ELSE LET k == IF AtLineStart(t, pos)
                  THEN IdStart(t, SkipSpace(t, pos), TRUE) ELSE 0 IN
         IF k # 0
         THEN <<[start |-> pos, id |-> SubSeq(t, k, IdEnd(t, k) - 1),
                 end |-> IdEnd(t, k)]>>
              \o FindHeaders(t, IdEnd(t, k))
         ELSE FindHeaders(t, pos + 1)

\* str.strip()
RECURSIVE LStrip(_)
LStrip(t) == IF t # <<>> /\ IsSpace(t[1]) THEN LStrip(Tail(t)) ELSE t

RECURSIVE RStrip(_)
RStrip(t) ==
    IF t # <<>> /\ IsSpace(t[Len(t)])
    THEN RStrip(SubSeq(t, 1, Len(t) - 1)) ELSE t

Strip(t) == RStrip(LStrip(t))

\* The loop over the matches: sections[number] = content, a later match of
\* the same number replacing the earlier entry.
RECURSIVE StoreSections(_, _, _, _)
StoreSections(t, matches, i, acc) ==
    IF i > Len(matches) THEN acc
    ELSE LET m == matches[i]
             end == IF i + 1 <= Len(matches)
                    THEN matches[i + 1].start ELSE Len(t) + 1
             content == Strip(SubSeq(t, m.end, end - 1))
         IN StoreSections(t, matches, i + 1, (Strip(m.id) :> content) @@ acc)

\* The text the headers are searched in.
Normalize(t) == CollapseNewlines(ForceNewline(RemoveCR(t)))

parse_fsd_sections(t) ==
    LET text == Normalize(t) IN
    StoreSections(text, FindHeaders(text, 1), 1, <<>>)

-----------------------------------------------------------------------------
(* SectionMapper.keywords_for and extract_relevant_fsd_slice                *)

\* self.map.get(udd_section, [])
keywords_for(map, name) == IF name \in DOMAIN map THEN map[name] ELSE <<>>

\* The loop over mapped_keys inserting each body at the front of the list.
RECURSIVE Combine_Prepend(_, _)
Combine_Prepend(keys, fs_sections) ==
    IF keys = <<>> THEN <<>>
    ELSE LET key == Strip(Head(keys)) IN
         Combine_Prepend(Tail(keys), fs_sections)
         \o (IF key \in DOMAIN fs_sections THEN <<fs_sections[key]>> ELSE <<>>)

\* The loop over mapped_keys: the bodies of the keys found, in list order.
RECURSIVE Combine(_, _)
Combine(keys, fs_sections) ==
    IF keys = <<>> THEN <<>>
    ELSE LET key == Strip(Head(keys)) IN
         (IF key \in DOMAIN fs_sections THEN <<fs_sections[key]>> ELSE <<>>)
         \o Combine(Tail(keys), fs_sections)

\* "\n\n".join(parts)
RECURSIVE JoinBlank(_)
JoinBlank(parts) ==
    IF parts = <<>> THEN <<>>
    ELSE IF Len(parts) = 1 THEN parts[1]
         ELSE parts[1] \o <<"NL", "NL">> \o JoinBlank(Tail(parts))

\* The fallback returning the text as parse_fsd_sections normalized it.
extract_relevant_fsd_slice_Normalized(text, name, map) ==
    LET combined == Combine(keywords_for(map, name), parse_fsd_sections(text)) IN
    IF combined # <<>> THEN JoinBlank(combined) ELSE Normalize(text)

extract_relevant_fsd_slice(text, name, map) ==
    LET combined == Combine(keywords_for(map, name), parse_fsd_sections(text)) IN
    IF combined # <<>> THEN JoinBlank(combined) ELSE text

-----------------------------------------------------------------------------
(* The inputs.                                                              *)

\* The texts made of at most n of the given pieces.
RECURSIVE TextsOf(_, _)
TextsOf(pieces, n) ==
    IF n = 0 THEN {<<>>}
    ELSE LET shorter == TextsOf(pieces, n - 1) IN
         shorter \cup {t \o p : t \in shorter, p \in pieces}

MaxPieces == 4

\* Two whole markers and the single characters markers, identifiers and
\* bodies are made of.
ParsePieces ==
    { <<"SECTION", ":", "1">>, <<"section", ":", "2">>,
      <<"a">>, <<" ">>, <<"NL">>, <<"CR">>, <<".">>, <<"2">> }

Identifiers == { <<"1">>, <<"2", ".", "1">> }

\* "SECTION: id\n" + body
SingleSection(id, body) == <<"SECTION", ":", " ">> \o id \o <<"NL">> \o body

\* No server thread is running.
NoServer == lock = None /\ today = 1 /\ req = <<>> /\ query = None

\* No job is running: the state of the specifications of single calls.
NoJob ==
    /\ rag_found = TRUE /\ map_found = TRUE
    /\ rag_file = <<>> /\ rag_sections = None
    /\ ppc = "none" /\ idx = 0
    /\ results = <<>> /\ context_snippets = <<>>
    /\ llm_calls = <<>> /\ llm_failed = {}
    /\ pairs = None /\ docx_bytes = None
    /\ JOBS = <<>> /\ files = <<>>
    /\ NoServer

-----------------------------------------------------------------------------
(* The sectionizer called on a text.                                        *)

Init ==
    /\ doc \in TextsOf(ParsePieces, MaxPieces)
    /\ fsd_text = None
    /\ mapper = <<>>
    /\ udd_section = <<"X">>
    /\ sections = None
    /\ fs_slice = None
    /\ pc = "start"
    /\ NoJob

\* parse_fsd_sections(doc)
ParseFsd ==
    /\ pc = "start"
    /\ fsd_text' = doc
    /\ sections' = parse_fsd_sections(doc)
    /\ pc' = "parsed"
    /\ UNCHANGED <<doc, mapper, udd_section, fs_slice, gvars, jvars, svars>>

\* parse_fsd_sections("SECTION: id\n" + doc)
ParseSingle ==
    /\ pc = "start"
    /\ \E id \in Identifiers :
          /\ fsd_text' = SingleSection(id, doc)
          /\ sections' = parse_fsd_sections(SingleSection(id, doc))
    /\ pc' = "single"
    /\ UNCHANGED <<doc, mapper, udd_section, fs_slice, gvars, jvars, svars>>

Next == ParseFsd \/ ParseSingle

Spec == Init /\ [][Next]_vars

-----------------------------------------------------------------------------
(* The slice resolver called on a text, a section name and a section map.   *)

MaxSlicePieces == 4

\* Two markers, two body characters and the carriage return.
SlicePieces ==
    { <<"SECTION", ":", "1">>, <<"SECTION", ":", "2">>,
      <<"a">>, <<"b">>, <<"CR">> }

\* Keys as the mapping file may hold them: an identifier, an identifier
\* with blanks around it, and an identifier no text here has.
KeyPool == { <<"1">>, <<" ", "2", " ">>, <<"9">> }

KeyLists ==
    {<<>>} \cup {<<k>> : k \in KeyPool}
           \cup {<<k, l>> : k \in KeyPool, l \in KeyPool}
           \cup {<<<<"9">>, <<" ", "2", " ">>, <<"1">>>>}

\* The map has an entry for "X" and none for "Y".
SectionNames == {<<"X">>, <<"Y">>}

InitSlice ==
    /\ doc \in TextsOf(SlicePieces, MaxSlicePieces)
    /\ fsd_text = None
    /\ mapper \in {(<<"X">> :> keys) : keys \in KeyLists}
    /\ udd_section \in SectionNames
    /\ sections = None
    /\ fs_slice = None
    /\ pc = "start"
    /\ NoJob

\* extract_relevant_fsd_slice(doc, udd_section, mapper); sections is its
\* local fs_sections.
ExtractSlice ==
    /\ pc = "start"
    /\ fsd_text' = doc
    /\ sections' = parse_fsd_sections(doc)
    /\ fs_slice' = extract_relevant_fsd_slice(doc, udd_section, mapper)
    /\ pc' = "extracted"
    /\ UNCHANGED <<doc, mapper, udd_section, gvars, jvars, svars>>

NextSlice == ExtractSlice

SpecSlice == InitSlice /\ [][NextSlice]_vars

-----------------------------------------------------------------------------
(* The document assembler: find_all_table_like_chunks, parse_markdown_table *)
(* and build_document.  A title and a body are texts; the document is the   *)
(* list of its index entries and, for each section, its heading, its        *)
(* bookmark and the blocks put under the heading.                           *)

\* l.count('|') >= 1
HasDelimiter(l) == \E i \in 1..Len(l) : l[i] = "|"

\* str.splitlines(): a line ends at "\n", "\r" or "\r\n"; a text that ends
\* with a line end has no empty last line.
RECURSIVE SplitLinesFrom(_, _)
SplitLinesFrom(t, pos) ==
    IF pos > Len(t) THEN <<>>
    ELSE LET ends == {i \in pos..Len(t) : t[i] \in {"NL", "CR"}} IN
         IF ends = {} THEN <<SubSeq(t, pos, Len(t))>>
         ELSE LET e == CHOOSE i \in ends : \A j \in ends : i <= j
                  after == IF t[e] = "CR" /\ e < Len(t) /\ t[e + 1] = "NL"
                           THEN e + 2 ELSE e + 1
              IN <<SubSeq(t, pos, e - 1)>> \o SplitLinesFrom(t, after)

splitlines(t) == SplitLinesFrom(t, 1)

\* "\n".join(lines)
RECURSIVE JoinLines(_)
JoinLines(lines) ==
    IF lines = <<>> THEN <<>>
    ELSE IF Len(lines) = 1 THEN lines[1]
         ELSE lines[1] \o <<"NL">> \o JoinLines(Tail(lines))

\* The index after the delimiter lines that start at line i.
RECURSIVE RunEnd(_, _)
RunEnd(lines, i) ==
    IF i <= Len(lines) /\ HasDelimiter(lines[i]) THEN RunEnd(lines, i + 1) ELSE i

\* The while loop of find_all_table_like_chunks from line i.
RECURSIVE ChunksFrom(_, _)
ChunksFrom(lines, i) ==
    IF i > Len(lines) THEN <<>>
    ELSE IF /\ HasDelimiter(lines[i])
            /\ i + 1 <= Len(lines) /\ HasDelimiter(lines[i + 1])
         THEN LET j == RunEnd(lines, i + 1) IN
              <<[typ |-> "table",
                 value |-> Strip(JoinLines(SubSeq(lines, i, j - 1)))]>>
              \o ChunksFrom(lines, j)
         ELSE (IF Strip(lines[i]) # <<>>
               THEN <<[typ |-> "text", value |-> Strip(lines[i])]>>
               ELSE <<>>)
              \o ChunksFrom(lines, i + 1)

find_all_table_like_chunks(text) ==
    IF Strip(text) = <<>> THEN <<>> ELSE ChunksFrom(splitlines(text), 1)

\* l.strip('|')
RECURSIVE StripDelimiters(_)
StripDelimiters(l) ==
    IF l # <<>> /\ l[1] = "|" THEN StripDelimiters(Tail(l))
    ELSE IF l # <<>> /\ l[Len(l)] = "|"
         THEN StripDelimiters(SubSeq(l, 1, Len(l) - 1))
         ELSE l

\* l.split('|')
RECURSIVE SplitDelimiters(_)
SplitDelimiters(l) ==
    LET bars == {i \in 1..Len(l) : l[i] = "|"} IN
    IF bars = {} THEN <<l>>
    ELSE LET b == CHOOSE i \in bars : \A j \in bars : i <= j IN
         <<SubSeq(l, 1, b - 1)>> \o SplitDelimiters(SubSeq(l, b + 1, Len(l)))

\* [c.strip() for c in l.strip('|').split('|')]
Cells(l) ==
    LET parts == SplitDelimiters(StripDelimiters(l)) IN
    [i \in 1..Len(parts) |-> Strip(parts[i])]

\* The stripped lines of a text that are not blank.
StrippedLines(text) ==
    LET lines == SelectSeq(splitlines(text), LAMBDA l : Strip(l) # <<>>) IN
    [i \in 1..Len(lines) |-> Strip(lines[i])]

\* A table of any run that starts with the delimiter, whatever the column
\* counts of its rows.
parse_markdown_table_AnyWidth(table_md) ==
    LET lines == StrippedLines(table_md) IN
    IF Len(lines) < 2 \/ lines[1][1] # "|" THEN [found |-> FALSE]
    ELSE LET rows == [i \in 1..Len(lines) |-> Cells(lines[i])] IN
         [found |-> TRUE, header |-> rows[1], data_rows |-> Tail(rows)]

\* parse_markdown_table: (None, None) is found = FALSE.
parse_markdown_table(table_md) ==
    LET lines == StrippedLines(table_md) IN
    IF Len(lines) < 2 THEN [found |-> FALSE]
    ELSE IF lines[1][1] # "|" THEN [found |-> FALSE]
    ELSE LET rows == [i \in 1..Len(lines) |-> Cells(lines[i])] IN
         IF \A i \in 2..Len(rows) : Len(rows[i]) = Len(rows[1])
         THEN [found |-> TRUE, header |-> rows[1], data_rows |-> Tail(rows)]
         ELSE [found |-> FALSE]

\* re.match(r"^\d+\.\d+(\.|)\s", text.strip())
is_subsection_heading(text) ==
    LET s == Strip(text) IN
    /\ s # <<>> /\ IsDigit(s[1])
    /\ LET d == SkipDigits(s, 1) IN
       /\ d + 1 <= Len(s) /\ s[d] = "." /\ IsDigit(s[d + 1])
       /\ LET e == SkipDigits(s, d + 1) IN
          \/ e <= Len(s) /\ IsSpace(s[e])
          \/ e + 1 <= Len(s) /\ s[e] = "." /\ IsSpace(s[e + 1])

\* The block build_document adds for a chunk: the bold paragraph of a
\* subsection, a normal paragraph, or a table.
BlockOf(chunk) ==
    IF chunk.typ = "text"
    THEN IF is_subsection_heading(chunk.value)
         THEN [kind |-> "subsection", text |-> chunk.value]
         ELSE [kind |-> "paragraph", text |-> chunk.value]
    ELSE LET table == parse_markdown_table(chunk.value) IN
         IF table.found /\ table.header # <<>> /\ table.data_rows # <<>>
         THEN [kind |-> "table", header |-> table.header,
               rows |-> table.data_rows]
         ELSE [kind |-> "paragraph", text |-> chunk.value]

\* The blocks put under the heading of a section with this content.
BlocksOf(sec_content) ==
    LET chunks == find_all_table_like_chunks(sec_content) IN
    [i \in 1..Len(chunks) |-> BlockOf(chunks[i])]

\* str.lower() of a character.
Lower(c) ==
    CASE c = "T" -> "t" [] c = "U" -> "u" [] c = "X" -> "x" [] c = "Y" -> "y"
      [] OTHER -> c

\* title.lower().strip()
LowerStrip(title) == Strip([i \in 1..Len(title) |-> Lower(title[i])])

\* find_section_content: the content of the first entry whose name is the
\* title but for letter case and spaces around it; None is found = FALSE.
find_section_content(content_list, section_title) ==
    LET hits == {i \in 1..Len(content_list) :
                    LowerStrip(content_list[i].section_name)
                        = LowerStrip(section_title)}
    IN IF hits = {} THEN [found |-> FALSE]
       ELSE [found |-> TRUE,
             content |-> content_list[CHOOSE i \in hits :
                                          \A j \in hits : i <= j].content]

\* _pairs_to_builder_structures
pairs_to_builder_structures(title_text_pairs) ==
    [content_list |-> [i \in 1..Len(title_text_pairs) |->
                          [section_name |-> title_text_pairs[i][1],
                           content |-> title_text_pairs[i][2]]],
     sections |-> [i \in 1..Len(title_text_pairs) |->
                      [title |-> title_text_pairs[i][1]]]]

\* build_document: the index entries "i. title", then for each section its
\* heading "i. title", its bookmark sec_i and the blocks of its content.
build_document(content, section_list) ==
    [index |-> [i \in 1..Len(section_list) |->
                   [number |-> i, title |-> section_list[i].title]],
     body |-> [i \in 1..Len(section_list) |->
                  LET title == section_list[i].title
                      sec_content == find_section_content(content, title)
                  IN [number |-> i, title |-> title, bookmark |-> i,
                      blocks |-> BlocksOf(IF sec_content.found
                                          THEN sec_content.content
                                          ELSE <<>>)]]]

-----------------------------------------------------------------------------
(* The template store: load_rag_sections and _parse_rag_block.  The         *)
(* resource is a text; the words type, description, prompt, fields and      *)
(* text are one character each, as are the letters of names and values.     *)

\* [a-zA-Z_]
IsLetter(c) ==
    c \in {"X", "Y", "a", "type", "description", "prompt", "fields", "text"}

\* re.split(r"\n(?=#)", t): the text cut at every line end that a "#"
\* follows, the line end left out.
RECURSIVE SplitBlocks(_)
SplitBlocks(t) ==
    LET cuts == {i \in 1..(Len(t) - 1) : t[i] = "NL" /\ t[i + 1] = "#"} IN
    IF cuts = {} THEN <<t>>
    ELSE LET c == CHOOSE i \in cuts : \A j \in cuts : i <= j IN
         <<SubSeq(t, 1, c - 1)>> \o SplitBlocks(SubSeq(t, c + 1, Len(t)))

\* re.match(r"^[a-zA-Z_]+:\s*", ln): the position of the colon after the
\* letters the line starts with, and 0 when the line is no "key:" line.
RECURSIVE SkipLetters(_, _)
SkipLetters(ln, i) ==
    IF i <= Len(ln) /\ IsLetter(ln[i]) THEN SkipLetters(ln, i + 1) ELSE i

KeyColon(ln) ==
    IF ln # <<>> /\ IsLetter(ln[1])
    THEN LET c == SkipLetters(ln, 1) IN
         IF c <= Len(ln) /\ ln[c] = ":" THEN c ELSE 0
    ELSE 0

\* " ".join(lines)
RECURSIVE JoinSpace(_)
JoinSpace(lines) ==
    IF lines = <<>> THEN <<>>
    ELSE IF Len(lines) = 1 THEN lines[1]
         ELSE lines[1] \o <<" ">> \o JoinSpace(Tail(lines))

\* flush_key: the value of the current key stored, when there is a key.
flush_key(keyvals, has_key, current_key, current_val_lines) ==
    IF has_key
    THEN (current_key :> Strip(JoinSpace(current_val_lines))) @@ keyvals
    ELSE keyvals

\* The loop over lines[1:] and the last flush_key.
RECURSIVE KeyVals(_, _, _, _, _, _)
KeyVals(lines, i, keyvals, has_key, current_key, current_val_lines) ==
    IF i > Len(lines)
    THEN flush_key(keyvals, has_key, current_key, current_val_lines)
    ELSE LET ln == lines[i]
             c == KeyColon(ln)
         IN IF c # 0
            THEN KeyVals(lines, i + 1,
                         flush_key(keyvals, has_key, current_key,
                                   current_val_lines),
                         TRUE, Strip(SubSeq(ln, 1, c - 1)),
                         <<Strip(SubSeq(ln, c + 1, Len(ln)))>>)
            ELSE KeyVals(lines, i + 1, keyvals, has_key, current_key,
                         Append(current_val_lines, Strip(ln)))

\* raw.split(",")
RECURSIVE SplitCommas(_)
SplitCommas(l) ==
    LET commas == {i \in 1..Len(l) : l[i] = ","} IN
    IF commas = {} THEN <<l>>
    ELSE LET c == CHOOSE i \in commas : \A j \in commas : i <= j IN
         <<SubSeq(l, 1, c - 1)>> \o SplitCommas(SubSeq(l, c + 1, Len(l)))

\* The entries of a comma list, stripped, the empty ones dropped.
FieldsOf(list) ==
    LET parts == SplitCommas(list)
        stripped == [i \in 1..Len(parts) |-> Strip(parts[i])]
    IN SelectSeq(stripped, LAMBDA f : f # <<>>)

\* The "fields" value: a list in brackets, or a bare list.
ParseFields(raw) ==
    IF Len(raw) >= 2 /\ raw[1] = "[" /\ raw[Len(raw)] = "]"
    THEN FieldsOf(SubSeq(raw, 2, Len(raw) - 1))
    ELSE FieldsOf(raw)

\* keyvals.get(key, default)
GetKey(keyvals, key, default) ==
    IF key \in DOMAIN keyvals THEN keyvals[key] ELSE default

\* _parse_rag_block: the RagSection of the block, or raised when its first
\* line that is not blank does not start with "#".
parse_rag_block(block) ==
    LET lines == StrippedLines(Strip(block)) IN
    IF lines = <<>> \/ lines[1][1] # "#" THEN [raised |-> TRUE]
    ELSE LET keyvals == KeyVals(Tail(lines), 1, <<>>, FALSE, <<>>, <<>>) IN
         [raised |-> FALSE,
          section |->
              [name |-> Strip(Tail(lines[1])),
               type |-> GetKey(keyvals, <<"type">>, <<"text">>),
               description |-> GetKey(keyvals, <<"description">>, <<>>),
               prompt |-> GetKey(keyvals, <<"prompt">>, <<>>),
               has_fields |-> <<"fields">> \in DOMAIN keyvals,
               fields |-> IF <<"fields">> \in DOMAIN keyvals
                          THEN ParseFields(keyvals[<<"fields">>])
                          ELSE <<>>]]

\* A loader that gives up at a block that raises: nothing is returned.
load_rag_sections_Abort(text) ==
    LET blocks == SplitBlocks(Strip(text))
        filled == SelectSeq(blocks, LAMBDA b : Strip(b) # <<>>)
    IN
    IF \E i \in 1..Len(filled) : parse_rag_block(filled[i]).raised
    THEN <<>>
    ELSE [i \in 1..Len(filled) |-> parse_rag_block(filled[i]).section]

\* load_rag_sections, the resource found: the sections of the blocks that
\* are not blank and did not raise, in the order of the blocks.
load_rag_sections(text) ==
    LET blocks == SplitBlocks(Strip(text))
        parsed == SelectSeq(blocks,
                            LAMBDA b : /\ Strip(b) # <<>>
                                       /\ ~parse_rag_block(b).raised)
    IN [i \in 1..Len(parsed) |-> parse_rag_block(parsed[i]).section]

-----------------------------------------------------------------------------
(* One /generate job: generate, _run_job, _generate_docx_bytes and          *)
(* generate_udd_sections.  The template resource is a text of "#name"       *)
(* blocks; a reply of the text generator is a text.                         *)

MaxTemplates == 3

\* context_snippets[-3:]
ContextWindow == 3

\* content[:1200]
SnippetChars == 1200

\* A reply one character longer than a snippet keeps: its last character
\* is the only "b".
LongReply == [i \in 1..(SnippetChars + 1) |-> IF i > SnippetChars THEN "b" ELSE "a"]

\* The replies the text generator gives here.
Replies == { <<"a">>, <<" ", "b", "NL">>, LongReply }

\* The lists of at most n template names.
RECURSIVE TemplateLists(_)
TemplateLists(n) ==
    IF n = 0 THEN {<<>>}
    ELSE LET shorter == TemplateLists(n - 1) IN
         shorter \cup {l \o <<name>> : l \in shorter, name \in SectionNames}

\* The resource of the templates of these names: a line "#name" for each.
ResourceOf(names) == JoinLines([i \in 1..Len(names) |-> <<"#">> \o names[i]])

\* The job id generate draws, and the path _run_job writes to.
JobId == "job"

OutPath(job_id) == <<"jobs", job_id, "UDD.docx">>

\* s[:n]
Take(s, n) == SubSeq(s, 1, IF Len(s) < n THEN Len(s) ELSE n)

\* The whole of s, whatever n is.
LastN_All(s, n) == s

\* s[-n:]
LastN(s, n) == SubSeq(s, IF Len(s) > n THEN Len(s) - n + 1 ELSE 1, Len(s))

\* The templates sorted by name.
ensure_order_ByName(secs) ==
    SelectSeq(secs, LAMBDA sec : sec.name = <<"X">>)
        \o SelectSeq(secs, LAMBDA sec : sec.name # <<"X">>)

\* ensure_order returns the list it is given.
ensure_order(secs) == secs

\* The user prompt: the context of previous sections (left out when there
\* is none), the template and the FSD slice.
UserPrompt(sec, prior_context, slice) ==
    [context |-> prior_context, section |-> sec, slice |-> slice]

InitPipeline ==
    /\ doc = <<"SECTION", ":", "1", "a">>
    /\ mapper = (<<"X">> :> <<<<"1">>>>)
    /\ fsd_text = None /\ udd_section = None /\ sections = None
    /\ fs_slice = None /\ pc = "none"
    /\ rag_found \in BOOLEAN
    /\ map_found \in BOOLEAN
    /\ rag_file \in {ResourceOf(names) : names \in TemplateLists(MaxTemplates)}
    /\ rag_sections = None
    /\ ppc = "request"
    /\ idx = 0
    /\ results = <<>> /\ context_snippets = <<>>
    /\ llm_calls = <<>> /\ llm_failed = {}
    /\ pairs = None /\ docx_bytes = None
    /\ JOBS = <<>> /\ files = <<>>
    /\ NoServer

\* generate: the record of the new job, and _run_job queued.
Generate ==
    /\ ppc = "request"
    /\ JOBS' = (JobId :> [status |-> "pending", attempts |-> 0,
                          result_path |-> None, error |-> None]) @@ JOBS
    /\ ppc' = "queued"
    /\ UNCHANGED <<xvars, rag_found, map_found, rag_file, rag_sections, idx,
                   results, context_snippets, llm_calls, llm_failed, pairs,
                   docx_bytes,
                   files, svars>>

\* _run_job: status running, attempts 1.
RunJobStart ==
    /\ ppc = "queued"
    /\ JOBS' = [JOBS EXCEPT ![JobId].status = "running", ![JobId].attempts = 1]
    /\ ppc' = "load_rag"
    /\ UNCHANGED <<xvars, rag_found, map_found, rag_file, rag_sections, idx,
                   results, context_snippets, llm_calls, llm_failed, pairs,
                   docx_bytes,
                   files, svars>>

\* load_rag_sections: FileNotFoundError when the resource does not exist.
LoadRag ==
    /\ ppc = "load_rag"
    /\ IF rag_found
       THEN rag_sections' = load_rag_sections(rag_file) /\ ppc' = "load_mapper"
       ELSE rag_sections' = rag_sections /\ ppc' = "raised"
    /\ UNCHANGED <<xvars, rag_found, map_found, rag_file, idx, results,
                   context_snippets, llm_calls, llm_failed, pairs, docx_bytes, jvars, svars>>

\* A mapper that opens its file only when keywords are first looked up:
\* construction never raises.
LoadMapper_Lazy ==
    /\ ppc = "load_mapper"
    /\ ppc' = "generate"
    /\ idx' = 1
    /\ UNCHANGED <<xvars, rag_found, map_found, rag_file, rag_sections,
                   results, context_snippets, llm_calls, llm_failed, pairs,
                   docx_bytes,
                   jvars, svars>>

\* SectionMapper(mapping_path): FileNotFoundError when it does not exist.
LoadMapper ==
    /\ ppc = "load_mapper"
    /\ ppc' = IF map_found THEN "generate" ELSE "raised"
    /\ idx' = 1
    /\ UNCHANGED <<xvars, rag_found, map_found, rag_file, rag_sections,
                   results, context_snippets, llm_calls, llm_failed, pairs,
                   docx_bytes,
                   jvars, svars>>

\* One iteration of generate_udd_sections up to llm.invoke: the slice, the
\* context of the last three snippets, the prompt, the call.
InvokeLLM ==
    /\ ppc = "generate"
    /\ idx <= Len(ensure_order(rag_sections))
    /\ LET sec == ensure_order(rag_sections)[idx]
           slice == extract_relevant_fsd_slice(doc, sec.name, mapper)
           prior_context == LastN(context_snippets, ContextWindow)
       IN /\ fs_slice' = slice
          /\ udd_section' = sec.name
          /\ llm_calls' = Append(llm_calls, UserPrompt(sec, prior_context, slice))
    /\ ppc' = "invoke"
    /\ UNCHANGED <<doc, fsd_text, mapper, sections, pc, rag_found, map_found,
                   rag_file, rag_sections, idx, results, context_snippets,
                   llm_failed, pairs, docx_bytes, jvars, svars>>

\* A failed call logged and answered with an empty text, the loop going on.
LLMRaises_Swallowed ==
    /\ ppc = "invoke"
    /\ llm_failed' = llm_failed \cup {Len(llm_calls)}
    /\ results' = Append(results, <<ensure_order(rag_sections)[idx].name, <<>>>>)
    /\ idx' = idx + 1
    /\ ppc' = "generate"
    /\ UNCHANGED <<xvars, rag_found, map_found, rag_file, rag_sections,
                   context_snippets, llm_calls, pairs, docx_bytes, jvars, svars>>

\* llm.invoke raises: the exception is logged and raised again.
LLMRaises ==
    /\ ppc = "invoke"
    /\ llm_failed' = llm_failed \cup {Len(llm_calls)}
    /\ ppc' = "raised"
    /\ UNCHANGED <<xvars, rag_found, map_found, rag_file, rag_sections, idx,
                   results, context_snippets, llm_calls, pairs, docx_bytes,
                   jvars, svars>>

\* llm.invoke returns: the rest of the iteration.
LLMReturns ==
    /\ ppc = "invoke"
    /\ \E reply \in Replies :
          LET sec == ensure_order(rag_sections)[idx]
              content == Strip(reply)
          IN /\ results' = Append(results, <<sec.name, content>>)
             /\ context_snippets' =
                    Append(context_snippets,
                           [name |-> sec.name,
                            body |-> Take(content, SnippetChars)])
    /\ idx' = idx + 1
    /\ ppc' = "generate"
    /\ UNCHANGED <<xvars, rag_found, map_found, rag_file, rag_sections,
                   llm_calls, llm_failed, pairs, docx_bytes, jvars, svars>>

\* The loop is over: return results.
ReturnResults ==
    /\ ppc = "generate"
    /\ idx > Len(ensure_order(rag_sections))
    /\ pairs' = results
    /\ ppc' = "build"
    /\ UNCHANGED <<xvars, rag_found, map_found, rag_file, rag_sections, idx,
                   results, context_snippets, llm_calls, llm_failed, docx_bytes, jvars, svars>>

\* _pairs_to_builder_structures, build_document, doc.save: the bytes of the
\* document of these pairs.
BuildDocument ==
    /\ ppc = "build"
    /\ LET built == pairs_to_builder_structures(pairs) IN
       docx_bytes' = build_document(built.content_list, built.sections)
    /\ ppc' = "write"
    /\ UNCHANGED <<xvars, rag_found, map_found, rag_file, rag_sections, idx,
                   results, context_snippets, llm_calls, llm_failed, pairs, jvars, svars>>

\* _run_job writes jobs/<job_id>/UDD.docx.
WriteOutput ==
    /\ ppc = "write"
    /\ files' = (OutPath(JobId) :> docx_bytes) @@ files
    /\ ppc' = "written"
    /\ UNCHANGED <<xvars, rag_found, map_found, rag_file, rag_sections, idx,
                   results, context_snippets, llm_calls, llm_failed, pairs,
                   docx_bytes,
                   JOBS, svars>>

\* _run_job records the success.
RunJobDone ==
    /\ ppc = "written"
    /\ JOBS' = [JOBS EXCEPT ![JobId].status = "done",
                            ![JobId].result_path = OutPath(JobId),
                            ![JobId].error = None]
    /\ ppc' = "done"
    /\ UNCHANGED <<xvars, rag_found, map_found, rag_file, rag_sections, idx,
                   results, context_snippets, llm_calls, llm_failed, pairs,
                   docx_bytes,
                   files, svars>>

\* _run_job catches the exception and records the failure.
RunJobFailed ==
    /\ ppc = "raised"
    /\ JOBS' = [JOBS EXCEPT ![JobId].status = "done",
                            ![JobId].result_path = None,
                            ![JobId].error = "error"]
    /\ ppc' = "done"
    /\ UNCHANGED <<xvars, rag_found, map_found, rag_file, rag_sections, idx,
                   results, context_snippets, llm_calls, llm_failed, pairs,
                   docx_bytes,
                   files, svars>>

NextPipeline ==
    \/ Generate \/ RunJobStart \/ LoadRag \/ LoadMapper
    \/ InvokeLLM \/ LLMRaises \/ LLMReturns \/ ReturnResults
    \/ BuildDocument \/ WriteOutput \/ RunJobDone \/ RunJobFailed

SpecPipeline == InitPipeline /\ [][NextPipeline]_vars

\* The same job with more templates than the context window holds: the
\* template lists X, Y, X, Y, ... of every length up to MaxContextTemplates.
MaxContextTemplates == 5

AlternatingTemplates(n) ==
    [i \in 1..n |-> IF i % 2 = 1 THEN <<"X">> ELSE <<"Y">>]

InitContext ==
    /\ doc = <<"SECTION", ":", "1", "a">>
    /\ mapper = (<<"X">> :> <<<<"1">>>>)
    /\ fsd_text = None /\ udd_section = None /\ sections = None
    /\ fs_slice = None /\ pc = "none"
    /\ rag_found = TRUE
    /\ map_found = TRUE
    /\ rag_file \in {ResourceOf(AlternatingTemplates(n)) :
                        n \in 0..MaxContextTemplates}
    /\ rag_sections = None
    /\ ppc = "request"
    /\ idx = 0
    /\ results = <<>> /\ context_snippets = <<>>
    /\ llm_calls = <<>> /\ llm_failed = {}
    /\ pairs = None /\ docx_bytes = None
    /\ JOBS = <<>> /\ files = <<>>
    /\ NoServer

SpecContext == InitContext /\ [][NextPipeline]_vars

-----------------------------------------------------------------------------
(* The server: two requests, each a /generate job or a /generate_direct     *)
(* call, run by threads of the pool, and a client polling get_job.  A       *)
(* step is what a thread does between two points where another thread can  *)
(* run; a thread entering "with _JOBS_LOCK" waits until the lock is free.   *)
(* _generate_docx_bytes works on locals only and is one step: it returns    *)
(* the document built from the request's own fsd_text, or raises.           *)

Requests == {"r1", "r2"}

\* The job id of a request: os.urandom(8).hex(), taken to be fresh.
JobOf(r) == r

\* The document built from the fsd_text of request r.
DocumentOf(r) == [document |-> r]

\* jobs/direct/UDD_<today>.docx
DirectPath(day) == <<"jobs", "direct", day>>

\* No response sent yet.
NoResponse == [code |-> 0]

IdleRequest == [kind |-> None, pc |-> "idle", docx_bytes |-> None,
                out_path |-> None, response |-> NoResponse]

IdleQuery == [pc |-> "idle", job_id |-> None, job |-> None,
              result_path |-> None, response |-> NoResponse]

InitServer ==
    /\ doc = None /\ fsd_text = None /\ mapper = <<>> /\ udd_section = None
    /\ sections = None /\ fs_slice = None /\ pc = "none"
    /\ rag_found = TRUE /\ map_found = TRUE
    /\ rag_file = <<>> /\ rag_sections = None
    /\ ppc = "none" /\ idx = 0
    /\ results = <<>> /\ context_snippets = <<>>
    /\ llm_calls = <<>> /\ llm_failed = {}
    /\ pairs = None /\ docx_bytes = None
    /\ JOBS = <<>> /\ files = <<>>
    /\ lock = None
    /\ today = 1
    /\ req = [r \in Requests |-> IdleRequest]
    /\ query = IdleQuery

\* The date changes.
Midnight ==
    /\ today = 1
    /\ today' = 2
    /\ UNCHANGED <<xvars, gvars, jvars, lock, req, query>>

\* POST /generate: the pending record is stored under the lock and
\* _run_job is queued.
PostGenerate(r) ==
    /\ req[r].pc = "idle"
    /\ lock = None
    /\ JOBS' = (JobOf(r) :> [status |-> "pending", attempts |-> 0,
                             result_path |-> None, error |-> None]) @@ JOBS
    /\ req' = [req EXCEPT ![r].kind = "job", ![r].pc = "queued"]
    /\ UNCHANGED <<xvars, gvars, files, lock, today, query>>

\* _run_job, first with block: the lock taken, status = "running".
RunStatusRunning(r) ==
    /\ req[r].pc = "queued"
    /\ lock = None
    /\ lock' = r
    /\ JOBS' = [JOBS EXCEPT ![JobOf(r)].status = "running"]
    /\ req' = [req EXCEPT ![r].pc = "start_attempts"]
    /\ UNCHANGED <<xvars, gvars, files, today, query>>

\* attempts = 1, the lock released.
RunAttempts(r) ==
    /\ req[r].pc = "start_attempts"
    /\ JOBS' = [JOBS EXCEPT ![JobOf(r)].attempts = 1]
    /\ lock' = None
    /\ req' = [req EXCEPT ![r].pc = "generating"]
    /\ UNCHANGED <<xvars, gvars, files, today, query>>

\* _generate_docx_bytes returns the bytes, or raises.
RunGenerateDocx(r) ==
    /\ req[r].pc = "generating"
    /\ \/ req' = [req EXCEPT ![r].docx_bytes = DocumentOf(r), ![r].pc = "write"]
       \/ req' = [req EXCEPT ![r].pc = "failed"]
    /\ UNCHANGED <<xvars, gvars, jvars, lock, today, query>>

\* The bytes written to jobs/<job_id>/UDD.docx.
RunWrite(r) ==
    /\ req[r].pc = "write"
    /\ files' = (OutPath(JobOf(r)) :> req[r].docx_bytes) @@ files
    /\ req' = [req EXCEPT ![r].out_path = OutPath(JobOf(r)), ![r].pc = "written"]
    /\ UNCHANGED <<xvars, gvars, JOBS, lock, today, query>>

\* The completion, with block of the try: status = "done".
RunStatusDone(r) ==
    /\ req[r].pc = "written"
    /\ lock = None
    /\ lock' = r
    /\ JOBS' = [JOBS EXCEPT ![JobOf(r)].status = "done"]
    /\ req' = [req EXCEPT ![r].pc = "done_result"]
    /\ UNCHANGED <<xvars, gvars, files, today, query>>

\* result_path = str(out_path)
RunResultPath(r) ==
    /\ req[r].pc = "done_result"
    /\ JOBS' = [JOBS EXCEPT ![JobOf(r)].result_path = req[r].out_path]
    /\ req' = [req EXCEPT ![r].pc = "done_error"]
    /\ UNCHANGED <<xvars, gvars, files, lock, today, query>>

\* error = None, the lock released.
RunErrorNone(r) ==
    /\ req[r].pc = "done_error"
    /\ JOBS' = [JOBS EXCEPT ![JobOf(r)].error = None]
    /\ lock' = None
    /\ req' = [req EXCEPT ![r].pc = "ended"]
    /\ UNCHANGED <<xvars, gvars, files, today, query>>

\* The completion, with block of the except: status = "done".
RunFailedStatus(r) ==
    /\ req[r].pc = "failed"
    /\ lock = None
    /\ lock' = r
    /\ JOBS' = [JOBS EXCEPT ![JobOf(r)].status = "done"]
    /\ req' = [req EXCEPT ![r].pc = "failed_result"]
    /\ UNCHANGED <<xvars, gvars, files, today, query>>

\* result_path = None
RunFailedResultPath(r) ==
    /\ req[r].pc = "failed_result"
    /\ JOBS' = [JOBS EXCEPT ![JobOf(r)].result_path = None]
    /\ req' = [req EXCEPT ![r].pc = "failed_error"]
    /\ UNCHANGED <<xvars, gvars, files, lock, today, query>>

\* error = str(e), the lock released.
RunFailedError(r) ==
    /\ req[r].pc = "failed_error"
    /\ JOBS' = [JOBS EXCEPT ![JobOf(r)].error = "error"]
    /\ lock' = None
    /\ req' = [req EXCEPT ![r].pc = "ended"]
    /\ UNCHANGED <<xvars, gvars, files, today, query>>

\* POST /generate_direct: _generate_docx_bytes returns, or raises and the
\* request is answered with the error.
DirectGenerateDocx(r) ==
    /\ req[r].pc = "idle"
    /\ \/ req' = [req EXCEPT ![r].kind = "direct",
                             ![r].docx_bytes = DocumentOf(r),
                             ![r].pc = "direct_write"]
       \/ req' = [req EXCEPT ![r].kind = "direct",
                             ![r].response = [code |-> 500],
                             ![r].pc = "ended"]
    /\ UNCHANGED <<xvars, gvars, jvars, lock, today, query>>

\* out_path = jobs/direct/UDD_<today>.docx, and the bytes written to it.
DirectWrite(r) ==
    /\ req[r].pc = "direct_write"
    /\ files' = (DirectPath(today) :> req[r].docx_bytes) @@ files
    /\ req' = [req EXCEPT ![r].out_path = DirectPath(today),
                          ![r].pc = "direct_respond"]
    /\ UNCHANGED <<xvars, gvars, JOBS, lock, today, query>>

\* FileResponse(out_path): the file is read when the response is sent.
DirectRespond(r) ==
    /\ req[r].pc = "direct_respond"
    /\ req' = [req EXCEPT ![r].response =
                              [code |-> 200, file |-> files[req[r].out_path]],
                          ![r].pc = "ended"]
    /\ UNCHANGED <<xvars, gvars, jvars, lock, today, query>>

\* GET /generate/{job_id}: job = _JOBS.get(job_id) under the lock; 404 when
\* there is no such job.  job is the record itself, not a copy.
GetJobLookup(j) ==
    /\ query.pc \in {"idle", "answered"}
    /\ lock = None
    /\ query' = IF j \in DOMAIN JOBS
                THEN [IdleQuery EXCEPT !.pc = "status", !.job_id = j, !.job = j]
                ELSE [IdleQuery EXCEPT !.pc = "answered", !.job_id = j,
                                       !.response = [code |-> 404]]
    /\ UNCHANGED <<xvars, gvars, jvars, lock, today, req>>

\* if job["status"] == "done"
GetJobStatus ==
    /\ query.pc = "status"
    /\ query' = [query EXCEPT !.pc = IF JOBS[query.job].status = "done"
                                     THEN "result" ELSE "running"]
    /\ UNCHANGED <<xvars, gvars, jvars, lock, today, req>>

\* if job.get("result_path") and os.path.exists(job["result_path"])
GetJobResultPath ==
    /\ query.pc = "result"
    /\ LET path == JOBS[query.job].result_path IN
       query' = IF path # None /\ path \in DOMAIN files
                THEN [query EXCEPT !.pc = "file", !.result_path = path]
                ELSE [query EXCEPT !.pc = "error"]
    /\ UNCHANGED <<xvars, gvars, jvars, lock, today, req>>

\* return FileResponse(str(p)), the file read when the response is sent.
GetJobFile ==
    /\ query.pc = "file"
    /\ query' = [query EXCEPT !.pc = "answered",
                              !.response = [code |-> 200,
                                            file |-> files[query.result_path]]]
    /\ UNCHANGED <<xvars, gvars, jvars, lock, today, req>>

\* return {"status": "done", "error": job.get("error")}
GetJobError ==
    /\ query.pc = "error"
    /\ query' = [query EXCEPT !.pc = "answered",
                              !.response = [code |-> 200, status |-> "done",
                                            error |-> JOBS[query.job].error]]
    /\ UNCHANGED <<xvars, gvars, jvars, lock, today, req>>

\* 202 with {"status": job["status"], "attempts": job.get("attempts", 0)}
GetJobRunning ==
    /\ query.pc = "running"
    /\ query' = [query EXCEPT !.pc = "answered",
                              !.response = [code |-> 202,
                                            status |-> JOBS[query.job].status,
                                            attempts |-> JOBS[query.job].attempts]]
    /\ UNCHANGED <<xvars, gvars, jvars, lock, today, req>>

NextServer ==
    \/ Midnight
    \/ \E r \in Requests :
          \/ PostGenerate(r) \/ RunStatusRunning(r) \/ RunAttempts(r)
          \/ RunGenerateDocx(r) \/ RunWrite(r)
          \/ RunStatusDone(r) \/ RunResultPath(r) \/ RunErrorNone(r)
          \/ RunFailedStatus(r) \/ RunFailedResultPath(r) \/ RunFailedError(r)
          \/ DirectGenerateDocx(r) \/ DirectWrite(r) \/ DirectRespond(r)
    \/ \E j \in Requests : GetJobLookup(JobOf(j))
    \/ GetJobStatus \/ GetJobResultPath \/ GetJobFile \/ GetJobError
    \/ GetJobRunning

SpecServer == InitServer /\ [][NextServer]_vars

-----------------------------------------------------------------------------
(* The documents and the template resources that are assembled and loaded   *)
(* on their own.                                                            *)

\* The document assembled from generated (title, body) pairs.
MaxTablePieces == 5

MaxSections == 3

\* The pieces of a body with table lines: a cell with its delimiter, the
\* delimiter and a letter alone, a space, a line end, and the start of a
\* subsection heading.
TablePieces ==
    { <<"|", "a">>, <<"|">>, <<"a">>, <<" ">>, <<"NL">>,
      <<"1", ".", "1", " ">> }

\* Titles that are equal, that differ in letter case or in the spaces
\* around them, and one that differs.
Titles == { <<"T">>, <<"t">>, <<" ", "T">>, <<"U">> }

\* Bodies that give different blocks.
Bodies == { <<"a">>, <<"1">>, <<"|", "a", "NL", "|", "1">> }

\* The lists of at most n (title, body) pairs.
RECURSIVE PairLists(_)
PairLists(n) ==
    IF n = 0 THEN {<<>>}
    ELSE LET shorter == PairLists(n - 1) IN
         shorter \cup {l \o <<<<title, body>>>> :
                          l \in shorter, title \in Titles, body \in Bodies}

InitDocument ==
    /\ doc = None /\ fsd_text = None /\ mapper = <<>> /\ udd_section = None
    /\ sections = None /\ fs_slice = None
    /\ pc = "start"
    /\ rag_found = TRUE /\ map_found = TRUE
    /\ rag_file = <<>> /\ rag_sections = None
    /\ ppc = "none" /\ idx = 0
    /\ results = <<>> /\ context_snippets = <<>>
    /\ llm_calls = <<>> /\ llm_failed = {}
    /\ pairs \in {<<<<<<"T">>, body>>>> :
                     body \in TextsOf(TablePieces, MaxTablePieces)}
                 \cup PairLists(MaxSections)
    /\ docx_bytes = None
    /\ JOBS = <<>> /\ files = <<>>
    /\ NoServer

\* _generate_docx_bytes from the pairs on: _pairs_to_builder_structures
\* and build_document.
AssembleDocument ==
    /\ pc = "start"
    /\ LET built == pairs_to_builder_structures(pairs) IN
       docx_bytes' = build_document(built.content_list, built.sections)
    /\ pc' = "built"
    /\ UNCHANGED <<doc, fsd_text, mapper, udd_section, sections, fs_slice,
                   rag_found, map_found, rag_file, rag_sections, ppc, idx,
                   results, context_snippets, llm_calls, llm_failed, pairs,
                   jvars, svars>>

NextDocument == AssembleDocument

SpecDocument == InitDocument /\ [][NextDocument]_vars

\* The template resource loaded on its own.
MaxLoaderPieces == 5

\* The pieces of a resource: the first lines of two templates, a line end,
\* a letter, a space, a key with its value and a list of fields.
LoaderPieces ==
    { <<"#", "X">>, <<"#", "Y">>, <<"NL">>, <<"a">>, <<" ">>,
      <<"type", ":", "a">>, <<"fields", ":", "a", ",">> }

InitLoader ==
    /\ doc = None /\ fsd_text = None /\ mapper = <<>> /\ udd_section = None
    /\ sections = None /\ fs_slice = None
    /\ pc = "start"
    /\ \/ rag_found = TRUE /\ rag_file \in TextsOf(LoaderPieces, MaxLoaderPieces)
       \/ rag_found = FALSE /\ rag_file = <<>>
    /\ map_found = TRUE
    /\ rag_sections = None
    /\ ppc = "none" /\ idx = 0
    /\ results = <<>> /\ context_snippets = <<>>
    /\ llm_calls = <<>> /\ llm_failed = {}
    /\ pairs = None /\ docx_bytes = None
    /\ JOBS = <<>> /\ files = <<>>
    /\ NoServer

\* load_rag_sections(rag_path): FileNotFoundError when the resource does
\* not exist.
LoadResource ==
    /\ pc = "start"
    /\ IF rag_found
       THEN rag_sections' = load_rag_sections(rag_file) /\ pc' = "loaded"
       ELSE rag_sections' = rag_sections /\ pc' = "raised"
    /\ UNCHANGED <<doc, fsd_text, mapper, udd_section, sections, fs_slice,
                   rag_found, map_found, rag_file, ppc, idx, results,
                   context_snippets, llm_calls, llm_failed, pairs, docx_bytes,
                   jvars, svars>>

NextLoader == LoadResource

SpecLoader == InitLoader /\ [][NextLoader]_vars

-----------------------------------------------------------------------------
(* Markers and bodies as the text itself shows them, for the statements     *)
(* about the sectionizer.                                                   *)

\* The positions of t where a marker stands: the word SECTION in any letter
\* case, a separator and an identifier, anywhere in a line.
MarkerPositions(t) == {p \in 1..Len(t) : IdStart(t, p, TRUE) # 0}

\* The identifier of the marker at p.
MarkerId(t, p) ==
    SubSeq(t, IdStart(t, p, TRUE), IdEnd(t, IdStart(t, p, TRUE)) - 1)

\* The position after the marker at p.
MarkerEnd(t, p) == IdEnd(t, IdStart(t, p, TRUE))

\* The start of the first marker after the marker at p, or the end of text.
NextMarker(t, p) ==
    LET later == {q \in MarkerPositions(t) : q > p} IN
    IF later = {} THEN Len(t) + 1
    ELSE CHOOSE q \in later : \A r \in later : q <= r

\* t from its first to its last character that is no space.
Trimmed(t) ==
    LET solid == {i \in 1..Len(t) : ~IsSpace(t[i])} IN
    IF solid = {} THEN <<>>
    ELSE SubSeq(t, CHOOSE i \in solid : \A j \in solid : i <= j,
                   CHOOSE i \in solid : \A j \in solid : i >= j)

\* The trimmed text between the marker at p and the next marker, in the
\* text with line feed runs collapsed.
BodyAfter(t, p) ==
    Trimmed(CollapseNewlines(SubSeq(t, MarkerEnd(t, p), NextMarker(t, p) - 1)))

\* parts joined with an empty line between two of them, the first n parts.
RECURSIVE BlankJoined(_, _)
BlankJoined(parts, n) ==
    IF n = 0 THEN <<>>
    ELSE IF n = 1 THEN parts[1]
         ELSE BlankJoined(parts, n - 1) \o <<"NL", "NL">> \o parts[n]

\* The mapped identifiers of the call, and those the sectionized text has.
MappedKeys == IF udd_section \in DOMAIN mapper THEN mapper[udd_section] ELSE <<>>

IsPresent(key) == Trimmed(key) \in DOMAIN sections

PresentKeys == SelectSeq(MappedKeys, IsPresent)

\* t with a line feed put in before position p.
BreakLineAt(t, p) == SubSeq(t, 1, p - 1) \o <<"NL">> \o SubSeq(t, p, Len(t))

\* i is followed by another line feed.
BlankLineAt(t, i) == i < Len(t) /\ t[i] = "NL" /\ t[i + 1] = "NL"

\* A body with no carriage return, no empty line and no marker in it.
PlainBody(b) ==
    /\ \A i \in 1..Len(b) : b[i] # "CR" /\ ~BlankLineAt(b, i)
    /\ MarkerPositions(b) = {}

-----------------------------------------------------------------------------
(* C3: for a text with N >= 0 markers, the keys of the mapping are exactly  *)
(* the identifiers of the markers, and each key maps to the trimmed text    *)
(* between a marker of that identifier and the next marker or the end of    *)
(* the text (markers and bodies read in the text without its carriage       *)
(* returns and with runs of line feeds collapsed).                          *)
C3_KeysAndBodies ==
    pc = "parsed" =>
        LET t == RemoveCR(doc) IN
        /\ DOMAIN sections = {MarkerId(t, p) : p \in MarkerPositions(t)}
        /\ \A k \in DOMAIN sections :
              \E p \in MarkerPositions(t) :
                  MarkerId(t, p) = k /\ sections[k] = BodyAfter(t, p)

(* C9: a marker anywhere in the text, in any letter case of the word, is    *)
(* parsed as if it stood at the start of a line of its own: the mapping     *)
(* returned is the one returned for the text with a line feed put in        *)
(* before the marker (where the marker starts a line, so that its           *)
(* identifier is a key and the text before it ends the previous body).      *)
C9_MidLineMarker ==
    pc = "parsed" =>
        \A p \in MarkerPositions(doc) :
            sections = parse_fsd_sections(BreakLineAt(doc, p))

(* C10 as stated: for every identifier and every body,                      *)
(* parse_fsd_sections("SECTION: id\n" + body) is {id: body.strip()}.        *)
C10_RoundTripAnyBody ==
    pc = "single" =>
        \E id \in Identifiers :
            fsd_text = SingleSection(id, doc) /\ sections = (id :> Trimmed(doc))

(* C10 amended: for every identifier and every body that holds no carriage  *)
(* return, no two consecutive line feeds and no marker (in any letter       *)
(* case), parse_fsd_sections("SECTION: id\n" + body) is {id: body.strip()}. *)
C10_RoundTripPlainBody ==
    (pc = "single" /\ PlainBody(doc)) =>
        \E id \in Identifiers :
            fsd_text = SingleSection(id, doc) /\ sections = (id :> Trimmed(doc))

\* A body of two lines with blanks around it has made the round trip.
C10_Witness ==
    /\ pc = "single"
    /\ PlainBody(doc)
    /\ Trimmed(doc) # doc
    /\ \E i \in 1..Len(Trimmed(doc)) : Trimmed(doc)[i] = "NL"
    /\ DOMAIN sections = {<<"2", ".", "1">>}

-----------------------------------------------------------------------------
(* C1: for a non-empty FSD text the slice returned is never the empty       *)
(* string, whatever the section name and the map (a map pointing at a       *)
(* marker with an empty body included).                                     *)
C1_SliceNeverEmpty ==
    (pc = "extracted" /\ doc # <<>>) => fs_slice # <<>>

(* C2: when the map has no entry for the section name, or none of the       *)
(* identifiers mapped to it (a key of the list, blanks around it aside) is  *)
(* a key of the sectionized FSD, the slice returned is the fsd_text         *)
(* argument itself, carriage returns and line layout as supplied.           *)
C2_FallbackIsOriginal ==
    (pc = "extracted" /\ PresentKeys = <<>>) => fs_slice = doc

\* The fallback was taken for a mapped identifier that the text, which has
\* a carriage return and a section of its own, does not hold.
C2_Witness ==
    /\ pc = "extracted"
    /\ MappedKeys # <<>>
    /\ PresentKeys = <<>>
    /\ DOMAIN sections # {}
    /\ \E i \in 1..Len(doc) : doc[i] = "CR"
    /\ fs_slice = doc

(* C4: when at least one mapped identifier is present in the sectionized    *)
(* FSD, the slice is the bodies of the mapped identifiers that are          *)
(* present, in the order of the map's list, joined by an empty line; the    *)
(* identifiers that are absent contribute nothing.                          *)
C4_JoinInListOrder ==
    (pc = "extracted" /\ PresentKeys # <<>>) =>
        fs_slice =
            BlankJoined([i \in 1..Len(PresentKeys) |->
                            sections[Trimmed(PresentKeys[i])]],
                        Len(PresentKeys))

\* The list names an absent identifier, then section 2, then section 1; the
\* text has section 1 before section 2, with different bodies.
C4_Witness ==
    /\ pc = "extracted"
    /\ MappedKeys = <<<<"9">>, <<" ", "2", " ">>, <<"1">>>>
    /\ DOMAIN sections = {<<"1">>, <<"2">>}
    /\ sections[<<"1">>] = <<"a">>
    /\ sections[<<"2">>] = <<"b">>
    /\ fs_slice = <<"b", "NL", "NL", "a">>

-----------------------------------------------------------------------------
(* C5: when the text-generation call for the k-th template fails, it is     *)
(* the last call made (no retry, no call for a later template), no result   *)
(* sequence is returned, no document is built, and the job writes no        *)
(* output file and records no result path.                                  *)
C5_FailFast ==
    \A k \in llm_failed :
        /\ Len(llm_calls) = k
        /\ llm_failed = {k}
        /\ ppc \in {"raised", "done"}
        /\ pairs = None
        /\ docx_bytes = None
        /\ files = <<>>
        /\ JOBS[JobId].result_path = None

\* The call for the second template failed and the job has ended.
C5_Witness ==
    /\ ppc = "done"
    /\ llm_failed = {2}
    /\ Len(results) = 1
    /\ Len(rag_sections) = 3
    /\ JOBS[JobId].status = "done"
    /\ JOBS[JobId].error # None

\* A call is made only when every earlier call has returned and its pair is
\* in results: the calls and the pairs go by the templates, in their order.
InTemplateOrder ==
    ppc \in {"generate", "invoke", "build", "write", "written"} =>
        /\ Len(results) <= Len(llm_calls)
        /\ Len(llm_calls) <= Len(results) + 1
        /\ Len(llm_calls) = Len(results) + 1 <=> ppc = "invoke"
        /\ Len(llm_calls) <= Len(rag_sections)
        /\ \A i \in 1..Len(llm_calls) : llm_calls[i].section = rag_sections[i]
        /\ \A i \in 1..Len(results) : results[i][1] = rag_sections[i].name

\* What is returned, when something is: one pair for each template.
OnePairPerTemplate ==
    pairs # None =>
        /\ llm_failed = {}
        /\ Len(llm_calls) = Len(rag_sections)
        /\ Len(pairs) = Len(rag_sections)
        /\ \A i \in 1..Len(pairs) :
              /\ pairs[i][1] = rag_sections[i].name
              /\ llm_calls[i].section = rag_sections[i]

\* A step leaves the pairs appended so far as they are, and the list
\* returned as it was returned.
PairsKept ==
    /\ Len(results') >= Len(results)
    /\ SubSeq(results', 1, Len(results)) = results
    /\ pairs # None => pairs' = pairs

(* C6: when every generation call succeeds, the generator is called once    *)
(* for each template, one call after the other in the order of the          *)
(* templates, and the list returned holds one (title, body) pair for each   *)
(* template in that order, the title being the template's name; a pair      *)
(* once appended is not changed by a later iteration.                       *)
C6_OneCallPerTemplateInOrder ==
    [](InTemplateOrder /\ OnePairPerTemplate) /\ [][PairsKept]_vars

\* Three templates named Y, X, Y were generated, one call each.
C6_Witness ==
    /\ ppc = "done"
    /\ pairs # None
    /\ Len(pairs) = 3
    /\ <<pairs[1][1], pairs[2][1], pairs[3][1]>> = <<<<"Y">>, <<"X">>, <<"Y">>>>
    /\ Len(llm_calls) = 3
    /\ pairs[1][2] # pairs[2][2]

-----------------------------------------------------------------------------
(* C7: under every interleaving of two requests (two jobs, two direct       *)
(* calls, or one of each), the document a request is answered with is the   *)
(* one built from that request's own FSD text.                              *)
C7_OwnDocument ==
    /\ \A r \in Requests :
          "file" \in DOMAIN req[r].response
              => req[r].response.file = DocumentOf(r)
    /\ "file" \in DOMAIN query.response
          => \E r \in Requests :
                JobOf(r) = query.job_id /\ query.response.file = DocumentOf(r)

(* C8: a status query never observes a half-applied completion: a query    *)
(* that sees status "done" also sees the result_path the same completion    *)
(* wrote, so a job that has written its result file is never reported as    *)
(* done without the file.                                                   *)
C8_CompletionSeenWhole ==
    (query.pc = "answered" /\ "error" \in DOMAIN query.response)
        => OutPath(query.job_id) \notin DOMAIN files

-----------------------------------------------------------------------------
\* The markers of t with identifier k, and the last of them.
MarkersOf(t, k) == {p \in MarkerPositions(t) : MarkerId(t, p) = k}

LastMarkerOf(t, k) ==
    CHOOSE p \in MarkersOf(t, k) : \A q \in MarkersOf(t, k) : q <= p

\* The identifiers that stand in more than one marker of t.
RepeatedIds(t) ==
    {MarkerId(t, p) : p \in {q \in MarkerPositions(t) :
                                Cardinality(MarkersOf(t, MarkerId(t, q))) > 1}}

(* C11: an identifier that stands in more than one marker of the text is a  *)
(* key of the mapping and maps to the trimmed body of its last marker in    *)
(* the order of the text, the bodies of its earlier markers being dropped;  *)
(* every other key still maps to the body of its own marker.                *)
C11_LastOccurrenceWins ==
    pc = "parsed" =>
        LET t == RemoveCR(doc) IN
        RepeatedIds(t) # {} =>
            /\ \A k \in RepeatedIds(t) :
                  /\ k \in DOMAIN sections
                  /\ sections[k] = BodyAfter(t, LastMarkerOf(t, k))
            /\ \A k \in DOMAIN sections \ RepeatedIds(t) :
                  /\ MarkersOf(t, k) # {}
                  /\ sections[k] = BodyAfter(t, LastMarkerOf(t, k))

-----------------------------------------------------------------------------
\* The smaller of two numbers.
Smaller(a, b) == IF a < b THEN a ELSE b

\* The (title, body) pair generated n steps before call k, as a snippet
\* should show it: the title, and the body cut after SnippetChars characters.
SnippetOfPair(pair) ==
    [name |-> pair[1],
     body |-> [i \in 1..Smaller(Len(pair[2]), SnippetChars) |-> pair[2][i]]]

(* C12: the context in the prompt of the call for the k-th template is the  *)
(* min(3, k-1) sections generated last before it, in the order they were    *)
(* generated, each with its body cut to its first 1200 characters; a        *)
(* section generated more than 3 steps earlier is not in it, and the first  *)
(* call has no context.                                                     *)
C12_RollingContext ==
    \A k \in 1..Len(llm_calls) :
        LET context == llm_calls[k].context
            n == Smaller(ContextWindow, k - 1)
        IN /\ Len(context) = n
           /\ \A i \in 1..n :
                 /\ k - 1 - n + i \in 1..Len(results)
                 /\ context[i] = SnippetOfPair(results[k - 1 - n + i])
           /\ \A i \in 1..n : Len(context[i].body) <= SnippetChars

\* The fifth call was made after four sections, the second of them longer
\* than a snippet: its context is the second, third and fourth section, the
\* second cut short.
C12_Witness ==
    /\ Len(llm_calls) = 5
    /\ Len(results) >= 4
    /\ results[2][2] = LongReply
    /\ Len(llm_calls[5].context) = 3
    /\ llm_calls[5].context[1].name = <<"Y">>
    /\ Len(llm_calls[5].context[1].body) = SnippetChars
    /\ llm_calls[5].context[1].body # results[2][2]
    /\ results[1][2] # results[2][2]

-----------------------------------------------------------------------------
(* Table lines as a body shows them.                                        *)

\* Lines i to j are a run of two or more delimiter lines with no delimiter
\* line before or after it.
IsRun(lines, i, j) ==
    /\ i < j
    /\ \A k \in i..j : HasDelimiter(lines[k])
    /\ i = 1 \/ ~HasDelimiter(lines[i - 1])
    /\ j = Len(lines) \/ ~HasDelimiter(lines[j + 1])

Runs(lines) ==
    {r \in (1..Len(lines)) \X (1..Len(lines)) : IsRun(lines, r[1], r[2])}

\* The columns of a line: its cells between the delimiters.
Columns(l) == Cells(Trimmed(l))

\* Every row of the run has as many columns as its first line.
EqualWidth(lines, r) ==
    \A k \in r[1]..r[2] : Len(Columns(lines[k])) = Len(Columns(lines[r[1]]))

\* The first line of the run starts with the delimiter.
StartsWithDelimiter(lines, r) == Trimmed(lines[r[1]])[1] = "|"

\* The table of a run: its first line is the header.
TableOf(lines, r) ==
    [kind |-> "table", header |-> Columns(lines[r[1]]),
     rows |-> [k \in 1..(r[2] - r[1]) |-> Columns(lines[r[1] + k])]]

\* Runs in the order of the text.
RECURSIVE InTextOrder(_)
InTextOrder(rs) ==
    IF rs = {} THEN <<>>
    ELSE LET first == CHOOSE r \in rs : \A q \in rs : r[1] <= q[1] IN
         <<first>> \o InTextOrder(rs \ {first})

\* A delimiter line with no delimiter line next to it.
IsLoneDelimiterLine(lines, i) ==
    /\ HasDelimiter(lines[i])
    /\ i = 1 \/ ~HasDelimiter(lines[i - 1])
    /\ i = Len(lines) \/ ~HasDelimiter(lines[i + 1])

\* The blocks are as stated: the tables among them are those of the given
\* runs, in the order of the text, and every lone delimiter line is a
\* paragraph of its text.
TablesAre(blocks, lines, rs) ==
    /\ SelectSeq(blocks, LAMBDA b : b.kind = "table")
           = [k \in 1..Cardinality(rs) |-> TableOf(lines, InTextOrder(rs)[k])]
    /\ \A i \in 1..Len(lines) :
          IsLoneDelimiterLine(lines, i) =>
              \E n \in 1..Len(blocks) :
                  /\ blocks[n].kind # "table"
                  /\ blocks[n].text = Trimmed(lines[i])

-----------------------------------------------------------------------------
(* Blocks as the text of a resource shows them.                             *)

\* The positions of t where a line starts with "#": the starts of the
\* well-formed blocks.
HashStarts(t) == {p \in 1..Len(t) : t[p] = "#" /\ (p = 1 \/ t[p - 1] = "NL")}

\* The positions of a set in ascending order.
RECURSIVE Ascending(_)
Ascending(ps) ==
    IF ps = {} THEN <<>>
    ELSE LET least == CHOOSE p \in ps : \A q \in ps : p <= q IN
         <<least>> \o Ascending(ps \ {least})

\* The end of the line that p is in.
LineEnd(t, p) ==
    LET ends == {i \in p..Len(t) : t[i] = "NL"} IN
    IF ends = {} THEN Len(t)
    ELSE (CHOOSE i \in ends : \A j \in ends : i <= j) - 1

\* The block that starts at p: up to the line end before the next block.
BlockAt(t, p) ==
    LET later == {q \in HashStarts(t) : q > p} IN
    IF later = {} THEN SubSeq(t, p, Len(t))
    ELSE SubSeq(t, p, (CHOOSE q \in later : \A r \in later : q <= r) - 2)

(* C14: the load is not aborted by a block whose first line that is not    *)
(* blank does not start with "#": the sequence returned holds one template  *)
(* for each block that starts with "#", in the order of the resource, under *)
(* the name its first line gives.                                           *)
C14_MalformedBlockSkipped ==
    pc = "loaded" =>
        LET t == Trimmed(rag_file)
            starts == Ascending(HashStarts(t))
        IN /\ Len(rag_sections) = Len(starts)
           /\ \A k \in 1..Len(starts) :
                 /\ rag_sections[k].name
                        = Trimmed(SubSeq(t, starts[k] + 1, LineEnd(t, starts[k])))
                 /\ rag_sections[k] = parse_rag_block(BlockAt(t, starts[k])).section

\* A resource that starts with a line "a" before the templates X and Y: the
\* two templates are returned.
C14_Witness ==
    /\ pc = "loaded"
    /\ rag_file = <<"a", "NL", "#", "X", "NL", "#", "Y">>
    /\ Len(rag_sections) = 2
    /\ rag_sections[1].name = <<"X">>
    /\ rag_sections[2].name = <<"Y">>

\* C15: a job whose template resource or section map does not exist makes no
\* generation call at all and ends failed, with the error recorded and no
\* result; whenever a generation call has been made, both resources exist
\* and were loaded before it.
C15_ResourcesBeforeGeneration ==
    /\ llm_calls # <<>> =>
           /\ rag_found /\ map_found
           /\ ppc \notin {"request", "queued", "load_rag", "load_mapper"}
    /\ ~(rag_found /\ map_found) =>
           /\ llm_calls = <<>>
           /\ ppc \notin {"generate", "invoke", "build", "write", "written"}
           /\ ppc = "done" =>
                  /\ JOBS[JobId].status = "done"
                  /\ JOBS[JobId].error = "error"
                  /\ JOBS[JobId].result_path = None
                  /\ DOMAIN files = {}

\* The templates were loaded, three of them, the section map is missing:
\* the job has ended failed without a single call.
C15_Witness ==
    /\ ppc = "done"
    /\ rag_found /\ ~map_found
    /\ Len(rag_sections) = 3
    /\ llm_calls = <<>>
    /\ JOBS[JobId].error = "error"

-----------------------------------------------------------------------------
\* The shapes of a registry record of job j.
HasResult(rec) == rec.result_path # None

IsPendingRecord(rec) ==
    /\ rec.status = "pending" /\ rec.attempts = 0
    /\ ~HasResult(rec) /\ rec.error = None

IsFailureRecord(rec) ==
    /\ rec.status = "done" /\ ~HasResult(rec) /\ rec.error # None

IsSuccessRecord(j, rec) ==
    /\ rec.status = "done"
    /\ HasResult(rec) /\ rec.result_path = OutPath(j)
    /\ rec.error = None

SameRecord(a, b) ==
    /\ a.status = b.status /\ a.attempts = b.attempts
    /\ HasResult(a) = HasResult(b) /\ a.error = b.error

StatusSteps ==
    {<<"pending", "pending">>, <<"pending", "running">>,
     <<"running", "running">>, <<"running", "done">>, <<"done", "done">>}

(* C16: in every step a job's record is created pending with attempts 0,    *)
(* and afterwards its status only advances pending -> running -> done;      *)
(* attempts is 0 while the status is pending and 1 afterwards; a record     *)
(* with status done is a failure (no result_path, the error set) or a       *)
(* success (result_path set, no error); and a record with status done does  *)
(* not change any more.                                                     *)
C16_RecordOnlyAdvances ==
    [][ /\ DOMAIN JOBS \subseteq DOMAIN JOBS'
        /\ \A j \in DOMAIN JOBS' \ DOMAIN JOBS : IsPendingRecord(JOBS'[j])
        /\ \A j \in DOMAIN JOBS :
              /\ <<JOBS[j].status, JOBS'[j].status>> \in StatusSteps
              /\ JOBS'[j].attempts = IF JOBS'[j].status = "pending" THEN 0 ELSE 1
              /\ JOBS'[j].status = "done" =>
                     IsFailureRecord(JOBS'[j]) \/ IsSuccessRecord(j, JOBS'[j])
              /\ JOBS[j].status = "done" => SameRecord(JOBS[j], JOBS'[j])
      ]_vars

-----------------------------------------------------------------------------
(* C17: in the assembled document the blocks under the i-th heading are the *)
(* blocks of the body of the i-th generated section, whatever the titles    *)
(* are: equal titles, and titles that differ in letter case or in the       *)
(* spaces around them, included.                                            *)
C17_ContentOfOwnSection ==
    pc = "built" =>
        /\ Len(docx_bytes.body) = Len(pairs)
        /\ \A i \in 1..Len(pairs) :
              /\ docx_bytes.body[i].title = pairs[i][1]
              /\ docx_bytes.body[i].blocks = BlocksOf(pairs[i][2])

====
